---- MODULE Spec2Model ----
(***************************************************************************)
(* Model of src/src/lordstar.cpp: the three LORD* online-FDR procedures    *)
(* lordstar_async_faster, lordstar_dep_faster and lordstar_batch_faster.   *)
(*                                                                         *)
(* One behaviour is one call of one procedure.  Init is the call's         *)
(* arguments; every action is one piece of the procedure's body (the seed  *)
(* before the loop, one iteration of the outer loop, the return).          *)
(*                                                                         *)
(* Numbers: p-values, discounts, w0 and alpha are doubles in the source;   *)
(* the model takes them from small sets of integers (a common scale        *)
(* factor), so sums, products and comparisons are exact.                   *)
(* Vectors are 0-based in the source; the model keeps the source's indices *)
(* and represents a vector of length n as a function on 0..n-1.            *)
(***************************************************************************)
EXTENDS Integers, FiniteSets, Sequences, TLC

VARIABLES
    proc,       \* which procedure is called: "async", "dep" or "batch"
    N,          \* pval.size()
    pval,       \* p-values, in arrival order
    gammai,     \* discount sequence
    w0,         \* initial wealth
    alpha,      \* target level
    E,          \* async: horizons
    L,          \* dep: lags
    batch,      \* batch: batch sizes
    batchsum,   \* batch: prefix sums of batch
    pc,         \* position in the body: "start", "loop", "cell", "done", "fault"
    i,          \* outer loop variable (i in async and dep, b in batch)
    x,          \* batch: inner loop variable
    alphai,     \* thresholds written so far (vector, or matrix in batch)
    R,          \* decisions written so far (vector, or matrix in batch)
    hist,       \* the count sequence: Rdec (async), Rlag (dep), rcum (batch)
    acc,        \* out-of-range accesses made so far: <<vector, step, index>>
    cancelled,  \* a cancellation signal was raised at a progress checkpoint
    result      \* what the call returned, NoResult until it returns

vars == <<proc, N, pval, gammai, w0, alpha, E, L, batch, batchsum,
          pc, i, x, alphai, R, hist, acc, cancelled, result>>

inputs == <<proc, N, pval, gammai, w0, alpha, E, L, batch, batchsum>>

(***************************************************************************)
(* Bounds and value sets of the model.                                     *)
(***************************************************************************)
MaxN == 4

PVals == {0, 2}

GammaVals == {0, 1}

W0Vals == {1, 2}

AlphaVals == {1, 3}

\* What a read before the start of gammai may deliver.
JunkVals == {-1, 0, 2}

Procs == {"async", "dep", "batch"}

NoResult == [none |-> TRUE]

(***************************************************************************)
(* 0-based vectors.                                                        *)
(***************************************************************************)
Empty == [k \in {} |-> 0]

Len0(v) == Cardinality(DOMAIN v)

Push(v, e) == [k \in 0..Len0(v) |-> IF k < Len0(v) THEN v[k] ELSE e]

Zeros(n) == [k \in 0..n-1 |-> 0]

Falses(n) == [k \in 0..n-1 |-> FALSE]

MaxOf(v) == CHOOSE m \in {v[k] : k \in DOMAIN v} : \A k \in DOMAIN v : v[k] <= m

RECURSIVE SumTo(_, _)
SumTo(v, n) == IF n < 0 THEN 0 ELSE v[n] + SumTo(v, n - 1)

(***************************************************************************)
(* std::upper_bound on [v.begin(), v.end()): the bisection the library     *)
(* runs, returning the offset from v.begin().  On a sorted vector this is  *)
(* the leftmost position holding a value greater than val.                 *)
(***************************************************************************)
RECURSIVE upper_bound_from(_, _, _, _)
upper_bound_from(v, val, first, len) ==
    IF len <= 0 THEN first
    ELSE LET half == len \div 2
             mid  == first + half
         IN  IF val < v[mid]
             THEN upper_bound_from(v, val, first, half)
             ELSE upper_bound_from(v, val, mid + 1, len - half - 1)

\* std::lower_bound in its place: the leftmost position not less than val.
RECURSIVE lower_bound_from(_, _, _, _)
lower_bound_from(v, val, first, len) ==
    IF len <= 0 THEN first
    ELSE LET half == len \div 2
             mid  == first + half
         IN  IF v[mid] < val
             THEN lower_bound_from(v, val, mid + 1, len - half - 1)
             ELSE lower_bound_from(v, val, first, half)

lower_bound(v, val) == lower_bound_from(v, val, 0, Len0(v))

upper_bound(v, val) == upper_bound_from(v, val, 0, Len0(v))

\* r: for (y = 0; y < max(cnt); y++) r.push_back(upper_bound(cnt, y))
Invert(cnt) ==
    IF MaxOf(cnt) > 0
    THEN [y \in 0..MaxOf(cnt)-1 |-> upper_bound(cnt, y)]
    ELSE Empty

\* R[i] = (pval[i] <= alphai[i])
DecideStrict(p, a) == p < a

Decide(p, a) == p <= a

\* gammai[k]; a read outside the vector delivers junk.
GammaAt(k, junk) == IF k \in DOMAIN gammai THEN gammai[k] ELSE junk

(***************************************************************************)
(* lordstar_async_faster and lordstar_dep_faster: one iteration of the     *)
(* outer loop.                                                             *)
(***************************************************************************)
\* cond after the inner loop of lordstar_async_faster
AsyncCondLate(ii, Rv, Ev) ==
    Cardinality({j \in 0..ii-1 : Rv[j] /\ (Ev[j] - 1 < ii - 1)})

AsyncCond(ii, Rv, Ev) ==
    Cardinality({j \in 0..ii-1 : Rv[j] /\ (Ev[j] - 1 <= ii - 1)})

\* cond after the guarded inner loop of lordstar_dep_faster
DepCond(ii, Rv, Lv) ==
    IF ii - 1 - Lv[ii] >= 0
    THEN Cardinality({j \in 0..(ii - Lv[ii] - 1) : Rv[j]})
    ELSE 0

\* The discount indices step ii reads: i-r[g]-1 for every g.
StepIdx(ii, r) == {ii - r[g] - 1 : g \in DOMAIN r}

\* The branch with the factor (alpha - w0) turned round.
StepThresholdSwapped(ii, r, junk) ==
    IF Len0(r) = 0
    THEN gammai[ii] * w0
    ELSE LET bound == Len0(r)
             terms == [g \in 0..bound-1 |->
                         IF g = 0 THEN 0 ELSE GammaAt(ii - r[g] - 1, junk)]
         IN  gammai[ii] * w0 + (w0 - alpha) * GammaAt(ii - r[0] - 1, junk)
               + alpha * SumTo(terms, bound - 1)

\* alphai[i] of the three-way branch on r.size()
StepThreshold(ii, r, junk) ==
    IF Len0(r) <= 1
    THEN IF Len0(r) > 0
         THEN gammai[ii] * w0 + (alpha - w0) * GammaAt(ii - r[0] - 1, junk)
         ELSE gammai[ii] * w0
    ELSE LET bound == Len0(r)
             terms == [g \in 0..bound-1 |->
                         IF g = 0 THEN 0 ELSE GammaAt(ii - r[g] - 1, junk)]
             gammaisum == SumTo(terms, bound - 1)
         IN  gammai[ii] * w0 + (alpha - w0) * GammaAt(ii - r[0] - 1, junk)
               + alpha * gammaisum

\* The state of a run of async or dep: thresholds, decisions, count sequence.
Seed(n) ==
    LET a0 == gammai[0] * w0
    IN  [alphai |-> [Zeros(n) EXCEPT ![0] = a0],
         R      |-> [Falses(n) EXCEPT ![0] = Decide(pval[0], a0)],
         hist   |-> Empty]

\* Lines 47-81 / 122-154: push cond, invert, threshold, decision.
Advance(st, ii, cond, junk) ==
    LET cnt == Push(st.hist, cond)
        r   == Invert(cnt)
        a   == StepThreshold(ii, r, junk)
    IN  [alphai |-> [st.alphai EXCEPT ![ii] = a],
         R      |-> [st.R EXCEPT ![ii] = Decide(pval[ii], a)],
         hist   |-> cnt]

AsyncIter(st, ii, Ev, junk) == Advance(st, ii, AsyncCond(ii, st.R, Ev), junk)

DepIter(st, ii, Lv, junk) == Advance(st, ii, DepCond(ii, st.R, Lv), junk)

\* The out-of-range accesses of the iteration that appends cond at step ii.
StepBad(st, ii, cond) ==
    {<<"gammai", ii, k>> : k \in StepIdx(ii, Invert(Push(st.hist, cond))) \ DOMAIN gammai}

Cur == [alphai |-> alphai, R |-> R, hist |-> hist]

\* lordstar_dep_faster as a function of its arguments: the state after the
\* iterations 1..k of the outer loop, for lags Lv.
RECURSIVE DepRunTo(_, _, _)
DepRunTo(n, Lv, k) ==
    IF k = 0 THEN Seed(n) ELSE DepIter(DepRunTo(n, Lv, k - 1), k, Lv, 0)

DepRun(n, Lv) == DepRunTo(n, Lv, n - 1)

(***************************************************************************)
(* lordstar_batch_faster.                                                  *)
(***************************************************************************)
RowSums(Rm) == [b \in DOMAIN Rm |-> Cardinality({c \in DOMAIN Rm[b] : Rm[b][c]})]

cumsum(v) == [k \in DOMAIN v |-> SumTo(v, k)]

\* rowSums(R) without the cumsum.
RcumPerRow(Rm) == RowSums(Rm)

\* rcum = cumsum(rowSums(R)), over all B rows of the matrix
Rcum(Rm) == cumsum(RowSums(Rm))

\* The rcum a cell of batch b inverts: computed once, before the loop over x.
CellHistoryFresh == Rcum(R)

CellHistory == hist

BatchsumAt(k, junk) == IF k \in DOMAIN batchsum THEN batchsum[k] ELSE junk

\* gammai[batchsum[b-1] + x - batchsum[r[g]]]
BatchOffset(b, xx, z, junk) == batchsum[b-1] + xx - BatchsumAt(z, junk)

\* alphai(b,x) of the three-way branch on r.size()
BatchThreshold(b, xx, r, junk) ==
    LET t == batchsum[b-1] + xx
    IN  IF Len0(r) <= 1
        THEN IF Len0(r) > 0
             THEN gammai[t] * w0
                    + (alpha - w0) * GammaAt(BatchOffset(b, xx, r[0], junk), junk)
             ELSE gammai[t] * w0
        ELSE LET bound == Len0(r)
                 terms == [g \in 0..bound-1 |->
                             IF g = 0 THEN 0
                             ELSE GammaAt(BatchOffset(b, xx, r[g], junk), junk)]
                 gammaisum == SumTo(terms, bound - 1)
             IN  gammai[t] * w0
                   + (alpha - w0) * GammaAt(BatchOffset(b, xx, r[0], junk), junk)
                   + alpha * gammaisum

\* The out-of-range accesses of cell (b,x) when it inverts cnt.
BatchBad(b, xx, cnt) ==
    LET r == Invert(cnt)
        t == batchsum[b-1] + xx
    IN  {<<"batchsum", t, r[g]>> : g \in {h \in DOMAIN r : r[h] \notin DOMAIN batchsum}}
          \cup {<<"gammai", t, batchsum[b-1] + xx - batchsum[r[g]]>> :
                  g \in {h \in DOMAIN r : /\ r[h] \in DOMAIN batchsum
                                          /\ batchsum[b-1] + xx - batchsum[r[h]]
                                               \notin DOMAIN gammai}}

(***************************************************************************)
(* The calls: arguments that satisfy the caller's contract.                *)
(***************************************************************************)
\* Horizons: test j is visible from step E[j] on.  A horizon below j+1 acts
\* as j+1 and one above n as n, so these are all the cases of the scan.
Horizons(n) == {e \in [0..n-1 -> 1..n] : \A j \in 0..n-1 : e[j] >= j + 1}

\* Lags: non-negative; a lag above i acts as i.
Lags(n) == {l \in [0..n-1 -> 0..n-1] : \A k \in 0..n-1 : l[k] <= k}

\* Batch sizes (zero-size batches included) that add up to n.
Batches(n) ==
    UNION {{bt \in [0..B-1 -> 0..n] : SumTo(bt, B - 1) = n} : B \in 1..n}

Init ==
    \E n \in 1..MaxN, pr \in Procs :
        /\ proc = pr
        /\ N = n
        /\ pval \in [0..n-1 -> PVals]
        /\ gammai \in [0..n-1 -> GammaVals]
        /\ w0 \in W0Vals
        /\ alpha \in AlphaVals
        /\ E \in (IF pr = "async" THEN Horizons(n) ELSE {Empty})
        /\ L \in (IF pr = "dep" THEN Lags(n) ELSE {Empty})
        /\ batch \in (IF pr = "batch" THEN Batches(n) ELSE {Empty})
        /\ batchsum = cumsum(batch)
        /\ pc = "start"
        /\ i = 0
        /\ x = 0
        /\ alphai = Empty
        /\ R = Empty
        /\ hist = Empty
        /\ acc = {}
        /\ cancelled = FALSE
        /\ result = NoResult

(***************************************************************************)
(* Out-of-range accesses.  The piece of the body that runs next makes the  *)
(* accesses BadNext; such an access either stops the call (Fault) or       *)
(* goes through: a stray write lands outside the call's vectors, a stray   *)
(* read delivers some value of JunkVals.                                   *)
(***************************************************************************)
BadNext ==
    CASE pc = "start" /\ proc = "async" ->
            IF 1 \in 0..N-1 THEN {} ELSE {<<"Rdectest", 0, 1>>}
      [] pc = "loop" /\ proc = "async" /\ i < N ->
            StepBad(Cur, i, AsyncCond(i, R, E))
      [] pc = "loop" /\ proc = "dep" /\ i < N ->
            StepBad(Cur, i, DepCond(i, R, L))
      [] pc = "cell" /\ proc = "batch" /\ x < batch[i] ->
            BatchBad(i, x, CellHistory)
      [] OTHER -> {}

JunkFor(bad) == IF bad = {} THEN {0} ELSE JunkVals

Fault ==
    /\ pc \in {"start", "loop", "cell"}
    /\ BadNext # {}
    /\ pc' = "fault"
    /\ acc' = acc \cup BadNext
    /\ UNCHANGED <<inputs, i, x, alphai, R, hist, cancelled, result>>

(***************************************************************************)
(* lordstar_async_faster                                                   *)
(***************************************************************************)
AsyncSeed ==
    /\ pc = "start"
    /\ proc = "async"
    /\ LET st == Seed(N)
       IN  /\ alphai' = st.alphai
           /\ R' = st.R
           /\ hist' = st.hist
    /\ acc' = acc \cup BadNext
    /\ i' = 1
    /\ pc' = "loop"
    /\ UNCHANGED <<inputs, x, cancelled, result>>

AsyncStep ==
    /\ pc = "loop"
    /\ proc = "async"
    /\ i < N
    /\ \E junk \in JunkFor(BadNext) :
          LET st == AsyncIter(Cur, i, E, junk)
          IN  /\ alphai' = st.alphai
              /\ R' = st.R
              /\ hist' = st.hist
    /\ acc' = acc \cup BadNext
    /\ i' = i + 1
    /\ UNCHANGED <<inputs, pc, x, cancelled, result>>

AsyncReturn ==
    /\ pc = "loop"
    /\ proc = "async"
    /\ i >= N
    /\ result' = [pval |-> pval, alphai |-> alphai, R |-> R]
    /\ pc' = "done"
    /\ UNCHANGED <<inputs, i, x, alphai, R, hist, acc, cancelled>>

(***************************************************************************)
(* lordstar_dep_faster                                                     *)
(***************************************************************************)
DepSeed ==
    /\ pc = "start"
    /\ proc = "dep"
    /\ LET st == Seed(N)
       IN  /\ alphai' = st.alphai
           /\ R' = st.R
           /\ hist' = st.hist
    /\ i' = 1
    /\ pc' = "loop"
    /\ UNCHANGED <<inputs, x, acc, cancelled, result>>

DepStep ==
    /\ pc = "loop"
    /\ proc = "dep"
    /\ i < N
    /\ \E junk \in JunkFor(BadNext) :
          LET st == DepIter(Cur, i, L, junk)
          IN  /\ alphai' = st.alphai
              /\ R' = st.R
              /\ hist' = st.hist
    /\ acc' = acc \cup BadNext
    /\ i' = i + 1
    /\ UNCHANGED <<inputs, pc, x, cancelled, result>>

DepReturn ==
    /\ pc = "loop"
    /\ proc = "dep"
    /\ i >= N
    /\ result' = [pval |-> pval, lag |-> L, alphai |-> alphai, R |-> R]
    /\ pc' = "done"
    /\ UNCHANGED <<inputs, i, x, alphai, R, hist, acc, cancelled>>

(***************************************************************************)
(* lordstar_batch_faster                                                   *)
(***************************************************************************)
BatchSeed ==
    /\ pc = "start"
    /\ proc = "batch"
    /\ LET B    == Len0(batch)
           cols == MaxOf(batch)
       IN  /\ alphai' = [b \in 0..B-1 |-> [c \in 0..cols-1 |->
                            IF b = 0 /\ c < batch[0] THEN gammai[c] * w0 ELSE 0]]
           /\ R' = [b \in 0..B-1 |-> [c \in 0..cols-1 |->
                            IF b = 0 /\ c < batch[0]
                            THEN Decide(pval[c], gammai[c] * w0) ELSE FALSE]]
    /\ i' = 1
    /\ UNCHANGED <<inputs, x, hist, acc, cancelled, result>>
    /\ pc' = "loop"

BatchBegin ==
    /\ pc = "loop"
    /\ proc = "batch"
    /\ i < Len0(batch)
    /\ hist' = Rcum(R)
    /\ x' = 0
    /\ pc' = "cell"
    /\ UNCHANGED <<inputs, i, alphai, R, acc, cancelled, result>>

BatchCell ==
    /\ pc = "cell"
    /\ proc = "batch"
    /\ x < batch[i]
    /\ \E junk \in JunkFor(BadNext) :
          LET r == Invert(CellHistory)
              a == BatchThreshold(i, x, r, junk)
          IN  /\ alphai' = [alphai EXCEPT ![i][x] = a]
              /\ R' = [R EXCEPT ![i][x] = Decide(pval[batchsum[i-1] + x], a)]
    /\ acc' = acc \cup BadNext
    /\ x' = x + 1
    /\ UNCHANGED <<inputs, pc, i, hist, cancelled, result>>

BatchEnd ==
    /\ pc = "cell"
    /\ proc = "batch"
    /\ x >= batch[i]
    /\ i' = i + 1
    /\ pc' = "loop"
    /\ UNCHANGED <<inputs, x, alphai, R, hist, acc, cancelled, result>>

BatchReturn ==
    /\ pc = "loop"
    /\ proc = "batch"
    /\ i >= Len0(batch)
    /\ result' = [alphai |-> alphai, R |-> R]
    /\ pc' = "done"
    /\ UNCHANGED <<inputs, i, x, alphai, R, hist, acc, cancelled>>

(***************************************************************************)
(* Progress checkpoints: p.increment() runs once per iteration of the      *)
(* inner loop (async, dep) and once per cell (batch).  Its value is        *)
(* discarded and no branch of the body reads the monitor, so a signal      *)
(* raised at a checkpoint changes nothing else.                            *)
(***************************************************************************)
Checkpoints ==
    CASE pc = "loop" /\ proc = "async" /\ i < N -> i
      [] pc = "loop" /\ proc = "dep" /\ i < N ->
            IF i - 1 - L[i] >= 0 THEN i - L[i] ELSE 0
      [] pc = "cell" /\ proc = "batch" /\ x < batch[i] -> 1
      [] OTHER -> 0

Cancel ==
    /\ Checkpoints > 0
    /\ ~cancelled
    /\ cancelled' = TRUE
    /\ UNCHANGED <<inputs, pc, i, x, alphai, R, hist, acc, result>>

Next ==
    \/ AsyncSeed \/ AsyncStep \/ AsyncReturn
    \/ DepSeed \/ DepStep \/ DepReturn
    \/ BatchSeed \/ BatchBegin \/ BatchCell \/ BatchEnd \/ BatchReturn
    \/ Fault

Spec == Init /\ [][Next]_vars

NextCancel == Next \/ Cancel

SpecCancel == Init /\ [][NextCancel]_vars

(***************************************************************************)
(* What has been written so far.                                           *)
(***************************************************************************)
\* async, dep: the steps whose threshold and decision are written.
WrittenSteps == IF proc \in {"async", "dep"} THEN 0..i-1 ELSE {}

\* batch: the cells (b,c), c < batch[b], whose threshold and decision are written.
DecidedCells ==
    IF proc = "batch" /\ pc # "start"
    THEN {bc \in (DOMAIN batch) \X (0..N-1) :
            /\ bc[2] < batch[bc[1]]
            /\ \/ bc[1] < i
               \/ bc[1] = i /\ pc \in {"cell", "fault"} /\ bc[2] < x}
    ELSE {}

\* The position in pval and gammai of cell (b,c).
CellTest(b, c) == IF b = 0 THEN c ELSE batchsum[b-1] + c

\* Step k (a test's position in pval) read outside a vector.
ReadOutside(k) == \E a \in acc : a[2] = k /\ a[1] # "Rdectest"

IsSorted(v) == \A a, b \in DOMAIN v : a <= b => v[a] <= v[b]

(***************************************************************************)
(* C1: in all three procedures, for every test processed so far, the       *)
(* decision is true exactly when the test's p-value is at most the         *)
(* threshold of that same test; the returned frame holds these vectors.    *)
(***************************************************************************)
DecisionMatchesThreshold ==
    /\ \A k \in WrittenSteps : R[k] = (pval[k] <= alphai[k])
    /\ \A bc \in DecidedCells :
          R[bc[1]][bc[2]] = (pval[CellTest(bc[1], bc[2])] <= alphai[bc[1]][bc[2]])
    /\ result # NoResult => result.alphai = alphai /\ result.R = R

DecisionWitness ==
    /\ proc = "batch"
    /\ pc = "done"
    /\ \E bc \in DecidedCells : bc[1] >= 1 /\ R[bc[1]][bc[2]]
    /\ \E bc \in DecidedCells : bc[1] >= 1 /\ ~R[bc[1]][bc[2]]

ImmediateHorizons == \A j \in DOMAIN E : E[j] = j + 1

AsyncImmediateEqualsDepZeroLag ==
    (proc = "async" /\ pc = "done" /\ ImmediateHorizons) =>
        /\ result.alphai = DepRun(N, Zeros(N)).alphai
        /\ result.R = DepRun(N, Zeros(N)).R

AsyncImmediateWitness ==
    /\ proc = "async"
    /\ pc = "done"
    /\ ImmediateHorizons
    /\ N >= 3
    /\ \E k \in 1..N-1 : R[k] /\ alphai[k] > gammai[k] * w0
    /\ \E k \in 0..N-1 : ~R[k]

(***************************************************************************)
(* C4: batch with N batches of size 1 returns at cell (b,0) the threshold  *)
(* and decision dep returns at step b with lag 0 at every step.            *)
(***************************************************************************)
UnitBatches == Len0(batch) = N /\ \A b \in DOMAIN batch : batch[b] = 1

BatchOfOnesEqualsDepZeroLag ==
    (proc = "batch" /\ pc = "done" /\ UnitBatches) =>
        \A b \in 0..N-1 :
            /\ result.alphai[b][0] = DepRun(N, Zeros(N)).alphai[b]
            /\ result.R[b][0] = DepRun(N, Zeros(N)).R[b]

BatchOfOnesWitness ==
    /\ proc = "batch"
    /\ pc = "done"
    /\ UnitBatches
    /\ N >= 3
    /\ \E b \in 1..N-1 : R[b][0] /\ alphai[b][0] > gammai[b] * w0
    /\ \E b \in 0..N-1 : ~R[b][0]

(***************************************************************************)
(* C5: in dep, at every step i >= 1 whose lag exceeds the history          *)
(* (i-1-L[i] < 0), whatever the earlier lags and decisions, the count      *)
(* appended is 0 and the threshold is gammai[i]*w0.  Stated for the steps  *)
(* that read gammai in range: a step that reads before the start of gammai *)
(* (C10) gets a threshold that depends on what the read delivers.          *)
(***************************************************************************)
LagBeyondHistoryGetsBaseThreshold ==
    proc = "dep" =>
        \A k \in WrittenSteps \ {0} :
            (k - 1 - L[k] < 0 /\ ~ReadOutside(k)) =>
                hist[k-1] = 0 /\ alphai[k] = gammai[k] * w0

(***************************************************************************)
(* C6: the count sequence that is inverted (Rdec, Rlag, rcum) is           *)
(* non-decreasing in every reachable state.                                *)
(***************************************************************************)
CountSequenceNonDecreasing == IsSorted(hist)

(***************************************************************************)
(* C7: once a cancellation signal was raised at a progress checkpoint,     *)
(* the call returns no result.                                             *)
(***************************************************************************)
CancelReturnsNoResult == cancelled => result = NoResult

(***************************************************************************)
(* C8: in batch, the threshold of every cell (b,x), b >= 1, is the one     *)
(* computed from the running rejection totals of the completed batches     *)
(* 0..b-1 alone; it stays so whatever is decided later in batch b and in   *)
(* the batches after it.                                                   *)
(***************************************************************************)
CompletedTotals(b) ==
    [k \in 0..b-1 |->
        Cardinality({bc \in (0..k) \X (0..N-1) :
                        bc[2] < batch[bc[1]] /\ R[bc[1]][bc[2]]})]

NoIntraBatchVisibility ==
    \A bc \in DecidedCells :
        bc[1] >= 1 =>
            alphai[bc[1]][bc[2]] =
                BatchThreshold(bc[1], bc[2], Invert(CompletedTotals(bc[1])), 0)

IntraBatchWitness ==
    /\ proc = "batch"
    /\ pc = "done"
    /\ \E b \in DOMAIN batch :
          /\ b >= 1
          /\ batch[b] >= 2
          /\ R[b][0]
          /\ ~R[b][1]
          /\ alphai[b][1] > gammai[CellTest(b, 1)] * w0

(***************************************************************************)
(* C9: in async, step 0 gets gammai[0]*w0, and step i >= 1 with k visible  *)
(* rejections (j < i rejected with E[j] <= i) gets gammai[i]*w0 when       *)
(* k = 0 and otherwise gammai[i]*w0 + (alpha-w0)*gammai[i-r[0]-1]          *)
(* + alpha * (sum over g = 1..k-1 of gammai[i-r[g]-1]), where r has k      *)
(* entries and r[g] is the leftmost position of the count sequence whose   *)
(* count exceeds g.                                                        *)
(***************************************************************************)
\* The rejections visible at step k.
Visible(k) == {j \in 0..k-1 : R[j] /\ E[j] <= k}

\* The leftmost position m (step m+1) at which more than g rejections are visible.
Leftmost(k, g) ==
    CHOOSE m \in 0..k-1 :
        /\ Cardinality(Visible(m + 1)) > g
        /\ \A m2 \in 0..m-1 : Cardinality(Visible(m2 + 1)) <= g

RECURSIVE LaterTerms(_, _)
LaterTerms(k, g) ==
    IF g < 1 THEN 0 ELSE gammai[k - Leftmost(k, g) - 1] + LaterTerms(k, g - 1)

AsyncThresholdFormula ==
    proc = "async" =>
        \A k \in WrittenSteps :
            LET n == Cardinality(Visible(k))
            IN  /\ k = 0 => alphai[k] = gammai[0] * w0
                /\ (k >= 1 /\ n = 0) => alphai[k] = gammai[k] * w0
                /\ (k >= 1 /\ n > 0) =>
                      /\ Len0(Invert([m \in 0..k-1 |-> hist[m]])) = n
                      /\ \A g \in 0..n-1 :
                            Invert([m \in 0..k-1 |-> hist[m]])[g] = Leftmost(k, g)
                      /\ alphai[k] = gammai[k] * w0
                                       + (alpha - w0) * gammai[k - Leftmost(k, 0) - 1]
                                       + alpha * LaterTerms(k, n - 1)

AsyncFormulaWitness ==
    /\ proc = "async"
    /\ pc = "done"
    /\ \E j \in 0..N-1 : E[j] > j + 1 /\ E[j] < N /\ R[j]
    /\ \E k \in 1..N-1 : Cardinality(Visible(k)) >= 2 /\ gammai[k-1] # gammai[k-2]

(***************************************************************************)
(* C10: for every call within the caller's contract, every index used to   *)
(* read or write a vector lies within the vector.                          *)
(***************************************************************************)
AllAccessesInRange == acc = {}

====
